---- MODULE Spec2Model ----
(***************************************************************************)
(* TEP64Parser (src/src/TEP64Parser.py): prefix dispatch, the off-chain    *)
(* and on-chain handlers and fetch_data, as a state machine over the calls *)
(* of parse_content on one parser instance.                                *)
(*                                                                         *)
(* Text is a sequence of character codes; a cell is a record               *)
(*   [bits  : the cell's data, a sequence of bytes,                        *)
(*    refs  : the chain of its descendants (one child per link), each the  *)
(*            data of one cell,                                            *)
(*    dict  : the dictionary stored under it, key -> value cell chain].    *)
(* The cell reader is pytoniq_core's Slice: load_bits returns a bitarray,  *)
(* refs is the Python list of child cells.                                 *)
(***************************************************************************)
EXTENDS Integers, Sequences, FiniteSets, TLC

\* ---------------------------------------------------------------- bounds
\* Parse calls that may be in flight on the parser at once.
NumCalls == 2
\* Pieces a URI of the model is put together from.
MaxUriPieces == 2
\* Child cells a snake string is chained over.
MaxChain == 2

\* ------------------------------------------------------------- constants
\* parse_prefix reads this many bits.
PrefixBits == 8

Calls == 1..NumCalls

\* ------------------------------------------------------- Python values
\* None and str, as the values of the metadata mapping.
NoneVal == [some |-> FALSE, str |-> <<>>]

Str(s) == [some |-> TRUE, str |-> s]

EmptyDict == [k \in {} |-> NoneVal]

\* {**base, **over} and base.update(over): over wins at equal keys.
PyDictMerge(base, over) ==
  [k \in DOMAIN base \cup DOMAIN over |->
     IF k \in DOMAIN over THEN over[k] ELSE base[k]]

\* s.startswith(p)
StartsWith(s, p) == Len(s) >= Len(p) /\ SubSeq(s, 1, Len(p)) = p

RECURSIVE PyReplace(_, _, _)
\* s.replace(old, new): every non-overlapping occurrence, left to right.
PyReplace(s, old, new) ==
  IF Len(s) < Len(old) THEN s
  ELSE IF SubSeq(s, 1, Len(old)) = old
       THEN new \o PyReplace(SubSeq(s, Len(old) + 1, Len(s)), old, new)
       ELSE <<Head(s)>> \o PyReplace(Tail(s), old, new)

RECURSIVE Concat(_)
Concat(chunks) ==
  IF chunks = <<>> THEN <<>> ELSE Head(chunks) \o Concat(Tail(chunks))

\* ------------------------------------------------------- the cell reader
\* bitarray.to01() of one byte: its bits as the characters '0' and '1',
\* most significant first.
To01(byte) == [i \in 1..PrefixBits |-> (byte \div (2 ^ (PrefixBits - i))) % 2]

RECURSIVE PyInt(_)
\* int(text) of a text of digits: read in base ten.
PyInt(digits) ==
  IF digits = <<>> THEN 0
  ELSE 10 * PyInt(SubSeq(digits, 1, Len(digits) - 1)) + digits[Len(digits)]

\* cs.load_bits(8) fails when fewer bits remain.
CanLoadBits(cs) == Len(cs.bits) >= 1

\* prefix = cs.load_bits(8); return int(prefix.to01())
parse_prefix(cs) == PyInt(To01(Head(cs.bits)))

\* The cursor after load_bits(8).
AfterLoadBits(cs) == [cs EXCEPT !.bits = Tail(cs.bits)]

\* cs.refs == 0: refs is the list of child cells, and a Python list is never
\* equal to the integer 0, whatever its length. (The sample off-chain cells at
\* the end of the source file have no child and hold the URI right after the
\* prefix byte, with no marker: they decode only because this test fails.)
RefsEqualsZero(cs) == FALSE

\* cs.load_string(cs.bits): the rest of the current cell as text.
load_string(cs) == cs.bits

\* cs.load_snake_string(): the rest of the current cell followed by the data
\* of each cell down the chain of children.
load_snake_string(cs) == cs.bits \o Concat(cs.refs)

\* cs.load_dict(256)
load_metadata(cs) == cs.dict

\* content.begin_parse(): a fresh cursor over the cell.
begin_parse(content) == content

\* ------------------------------------------------------ program constants
\* "ipfs://"
IpfsScheme == <<105, 112, 102, 115, 58, 47, 47>>

\* sha256(label) as a big-endian integer, cut to its leading 24 bits.
KeyTable ==
  [uri |-> 7398871, name |-> 8561491, description |-> 13173871,
   image |-> 6358486, image_data |-> 14264460, symbol |-> 12020348,
   decimals |-> 15630589, amount_style |-> 9113824,
   render_type |-> 13843168, website |-> 7633551]

calculate_key(label) == KeyTable[label]

\* default_values of default_handle_onchain_content: "9", "n", "currency".
FixedDefaults ==
  [uri |-> NoneVal, name |-> NoneVal, description |-> NoneVal,
   image |-> NoneVal, image_data |-> NoneVal, symbol |-> NoneVal,
   decimals |-> Str(<<57>>), amount_style |-> Str(<<110>>),
   render_type |-> Str(<<99, 117, 114, 114, 101, 110, 99, 121>>)]

OffchainHandler == "default_handle_offchain_content"

OnchainHandler == "default_handle_onchain_content"

\* A missing or None handler (handlers.get gives None for a missing key).
NoHandler == "None"

\* self.default_handlers as __init__ builds it.
DefaultHandlers == (0 :> OnchainHandler) @@ (1 :> OffchainHandler)

\* ------------------------------------------------------------ the handlers
MergedHandlersDefaultsWin(default_handlers, prefix_handlers) ==
  PyDictMerge(prefix_handlers, default_handlers)

\* handlers = {**self.default_handlers, **self.prefix_handlers}
MergedHandlers(default_handlers, prefix_handlers) ==
  PyDictMerge(default_handlers, prefix_handlers)

\* handlers.get(prefix_value)
HandlerFor(handlers, prefix_value) ==
  IF prefix_value \in DOMAIN handlers THEN handlers[prefix_value] ELSE NoHandler

\* if handler:
Truthy(handler) == handler # NoHandler

EffectiveDefaultsFixedOnly(extra) == FixedDefaults

\* default_values = {...}; default_values.update(self.extra_default_values)
EffectiveDefaults(extra) == PyDictMerge(FixedDefaults, extra)

OnchainMetadataDefaultsOnly(default_values, metadata) == default_values

\* metadata_keys, all_metadata and the loop over metadata_keys.
OnchainMetadata(default_values, metadata) ==
  [label \in DOMAIN default_values |->
     IF calculate_key(label) \in DOMAIN metadata
     THEN Str(Concat(metadata[calculate_key(label)]))
     ELSE default_values[label]]

\* The address fetch_data hands to requests.get.
FetchUrl(uri, endpoint) ==
  IF StartsWith(uri, IpfsScheme)
  THEN PyReplace(uri, IpfsScheme, endpoint)
  ELSE uri

\* requests.get raises (a RequestException) on a transport failure.
GetRaises(resp) == resp.exc # "none"

\* response.raise_for_status() raises HTTPError for a 4xx or 5xx status.
RaiseForStatusRaises(resp) == resp.status >= 400 /\ resp.status < 600

FetchFailsNever(resp) == FALSE

\* fetch_data ends in the except branch.
FetchFails(resp) == GetRaises(resp) \/ RaiseForStatusRaises(resp)

\* ------------------------------------------------------------- the inputs
\* Gateway bases a parser is constructed with: "g/" and "h/".
Endpoints == {<<103, 47>>, <<104, 47>>}

\* prefix_handlers a parser is constructed with (None and {} both end as {}):
\* the keys are prefix values, 0x0A among them, the values two handlers of the
\* caller, or None.
CustomDomains == {{}, {0}, {1}, {2}, {10}, {2, 10}}

CustomValues == {"custom_prefix_handler", "custom_handler_b", NoHandler}

HandlerMaps == UNION {[S -> CustomValues] : S \in CustomDomains}

\* extra_default_values a parser is constructed with.
ExtraChoices ==
  {EmptyDict, [decimals |-> Str(<<54>>), website |-> Str(<<119>>)]}

UriPieces == {IpfsScheme, <<97>>}

RECURSIVE UrisOf(_)
\* The texts of at most n pieces.
UrisOf(n) ==
  IF n = 0 THEN {<<>>}
  ELSE UrisOf(n - 1) \cup {u \o p : u \in UrisOf(n - 1), p \in UriPieces}

Uris == UrisOf(MaxUriPieces)

\* Where a text is cut when it is laid out over several cells.
CutPoints(s) == {0, Len(s) \div 2}

RECURSIVE ChainsOf(_, _)
\* The layouts of text s over 1..k cells.
ChainsOf(s, k) ==
  IF k = 0 THEN {}
  ELSE {<<s>>} \cup
       UNION {{<<SubSeq(s, 1, i)>> \o r :
                 r \in ChainsOf(SubSeq(s, i + 1, Len(s)), k - 1)} :
              i \in CutPoints(s)}

Cell(bits, refs, dict) == [bits |-> bits, refs |-> refs, dict |-> dict]

\* An off-chain root holding s in one cell after an embedded marker byte.
SingleCell(marker, s) == Cell(<<1, marker>> \o s, <<>>, EmptyDict)

\* An off-chain root holding s in one cell right after the prefix (the shape
\* of the sample cells at the end of the source file).
PlainCell(s) == Cell(<<1>> \o s, <<>>, EmptyDict)

\* An off-chain root holding s as a snake string over child cells.
SnakeCells(s) ==
  UNION {{Cell(<<1>> \o SubSeq(s, 1, i), chain, EmptyDict) :
            chain \in ChainsOf(SubSeq(s, i + 1, Len(s)), MaxChain)} :
         i \in CutPoints(s)}

OffchainCells ==
  UNION {{SingleCell(0, s), SingleCell(1, s), PlainCell(s)} \cup SnakeCells(s) :
           s \in Uris}

\* Dictionary keys: three attribute keys and one that is no attribute's.
DictKeys ==
  {calculate_key("name"), calculate_key("decimals"), calculate_key("website"), 1}

\* Value cells: "X" in one cell, "64" over two.
DictValues == {<< <<88>> >>, << <<54>>, <<52>> >>}

Dicts == UNION {[S -> DictValues] : S \in SUBSET DictKeys}

OnchainCells == {Cell(<<0>>, <<>>, d) : d \in Dicts}

\* Roots of one byte, every 8-bit prefix value, and the empty root.
PrefixCells == {Cell(<<p>>, <<>>, EmptyDict) : p \in 0..255} \cup
               {Cell(<<>>, <<>>, EmptyDict)}

Cells == OffchainCells \cup OnchainCells \cup PrefixCells

\* What the network answers to one GET.
Response(exc, status, text) == [exc |-> exc, status |-> status, text |-> text]

Responses ==
  {Response("none", st, <<123, 125>>) : st \in {200, 304, 404, 500}} \cup
  {Response(e, 0, <<>>) : e \in {"ConnectionError", "Timeout"}}

NoResponse == Response("unset", 0, <<>>)

\* --------------------------------------------------------------- the state
VARIABLES
  ipfs_endpoint,         \* self.ipfs_endpoint
  prefix_handlers,       \* self.prefix_handlers
  extra_default_values,  \* self.extra_default_values
  default_handlers,      \* self.default_handlers
  constructed,           \* the four fields as __init__ left them
  pc,                    \* where each call of parse_content stands
  content,               \* each call's argument
  frame,                 \* the local variables of the calls in flight
  outcome,               \* what each call returned or raised
  invoked,               \* the handlers each call invoked, in order
  reads,                 \* what the off-chain handler read, in order
  gets,                  \* the addresses each call issued a GET to, in order
  response,              \* what the network answered to the call's GET
  served                 \* whether a call on this parser has ended before

config == <<ipfs_endpoint, prefix_handlers, extra_default_values, default_handlers>>

vars == <<ipfs_endpoint, prefix_handlers, extra_default_values, default_handlers,
          constructed, pc, content, frame, outcome, invoked, reads, gets, response,
          served>>

EmptyCell == Cell(<<>>, <<>>, EmptyDict)

\* The locals of parse_content and of the handler it calls, before any is set.
InitLocals ==
  [cs |-> EmptyCell, prefix_value |-> -1, handlers |-> <<>>,
   handler |-> NoHandler, default_values |-> EmptyDict, uri |-> <<>>]

NoOutcome ==
  [status |-> "none", type |-> "", by |-> NoHandler, uri |-> <<>>,
   data |-> <<>>, metadata |-> EmptyDict]

Raised(error) == [NoOutcome EXCEPT !.status = error]

\* return {"type": "offchain", "uri": uri, "data": data}
OffchainResult(uri, data) ==
  [NoOutcome EXCEPT !.status = "returned", !.type = "offchain",
                    !.by = OffchainHandler, !.uri = uri, !.data = data]

\* return {"type": "onchain", "metadata": all_metadata}
OnchainResult(all_metadata) ==
  [NoOutcome EXCEPT !.status = "returned", !.type = "onchain",
                    !.by = OnchainHandler, !.metadata = all_metadata]

\* What a handler of the caller returns: its own result, opaque to the parser.
CustomResult(handler) ==
  [NoOutcome EXCEPT !.status = "returned", !.type = "custom", !.by = handler]

SharedFrame(t) == 1

\* Each call of parse_content has its own locals.
Frame(t) == t

Locals(t) == frame[Frame(t)]

\* __init__: the state after construction.
Constructed(endpoint, handlers, extra) ==
  /\ ipfs_endpoint = endpoint
  /\ prefix_handlers = handlers
  /\ extra_default_values = extra
  /\ default_handlers = DefaultHandlers
  /\ constructed = [ipfs_endpoint |-> endpoint, prefix_handlers |-> handlers,
                    extra_default_values |-> extra,
                    default_handlers |-> DefaultHandlers]
  /\ pc = [t \in Calls |-> "idle"]
  /\ content = [t \in Calls |-> EmptyCell]
  /\ frame = [t \in Calls |-> InitLocals]
  /\ outcome = [t \in Calls |-> NoOutcome]
  /\ invoked = [t \in Calls |-> <<>>]
  /\ reads = [t \in Calls |-> <<>>]
  /\ gets = [t \in Calls |-> <<>>]
  /\ response = [t \in Calls |-> NoResponse]
  /\ served = FALSE

Init ==
  \E endpoint \in Endpoints, handlers \in HandlerMaps, extra \in ExtraChoices :
    Constructed(endpoint, handlers, extra)

\* ------------------------------------------------------------- the actions
Finish(t, result) ==
  /\ pc' = [pc EXCEPT ![t] = "done"]
  /\ outcome' = [outcome EXCEPT ![t] = result]

\* A caller calls parse_content(content).
ParseContentCall(t, cell) ==
  /\ pc[t] = "idle"
  /\ pc' = [pc EXCEPT ![t] = "parse_content"]
  /\ content' = [content EXCEPT ![t] = cell]
  /\ frame' = [frame EXCEPT ![Frame(t)] = InitLocals]
  /\ outcome' = [outcome EXCEPT ![t] = NoOutcome]
  /\ invoked' = [invoked EXCEPT ![t] = <<>>]
  /\ reads' = [reads EXCEPT ![t] = <<>>]
  /\ gets' = [gets EXCEPT ![t] = <<>>]
  /\ response' = [response EXCEPT ![t] = NoResponse]
  /\ UNCHANGED <<config, constructed, served>>

\* parse_content up to the call of the handler, or to its raise.
ParseContent(t) ==
  /\ pc[t] = "parse_content"
  /\ LET cs == begin_parse(content[t]) IN
     IF ~CanLoadBits(cs)
     THEN /\ Finish(t, Raised("StructuralError"))
          /\ UNCHANGED <<frame, invoked>>
     ELSE LET prefix_value == parse_prefix(cs)
              handlers == MergedHandlers(default_handlers, prefix_handlers)
              handler == HandlerFor(handlers, prefix_value)
          IN /\ frame' = [frame EXCEPT ![Frame(t)] =
                            [@ EXCEPT !.cs = AfterLoadBits(cs),
                                      !.prefix_value = prefix_value,
                                      !.handlers = handlers,
                                      !.handler = handler]]
             /\ IF Truthy(handler)
                THEN /\ pc' = [pc EXCEPT ![t] = "handler"]
                     /\ invoked' = [invoked EXCEPT ![t] = Append(@, handler)]
                     /\ UNCHANGED outcome
                ELSE /\ Finish(t, Raised("InvalidPrefixError"))
                     /\ UNCHANGED invoked
  /\ UNCHANGED <<config, constructed, served, content, reads, gets, response>>

\* default_handle_offchain_content up to the call of fetch_data.
OffchainReadUri(t) ==
  /\ pc[t] = "handler"
  /\ Locals(t).handler = OffchainHandler
  /\ LET cs == Locals(t).cs IN
     IF RefsEqualsZero(cs)
     THEN IF ~CanLoadBits(cs)
          THEN /\ Finish(t, Raised("StructuralError"))
               /\ reads' = [reads EXCEPT ![t] = Append(@, "marker")]
               /\ UNCHANGED frame
          ELSE IF parse_prefix(cs) # 0
               THEN /\ Finish(t, Raised("InvalidPrefixError"))
                    /\ reads' = [reads EXCEPT ![t] = Append(@, "marker")]
                    /\ UNCHANGED frame
               ELSE /\ frame' = [frame EXCEPT ![Frame(t)] =
                                   [@ EXCEPT !.cs = EmptyCell,
                                             !.uri = load_string(AfterLoadBits(cs))]]
                    /\ reads' = [reads EXCEPT ![t] = @ \o <<"marker", "uri">>]
                    /\ pc' = [pc EXCEPT ![t] = "fetch_data"]
                    /\ UNCHANGED outcome
     ELSE /\ frame' = [frame EXCEPT ![Frame(t)] =
                         [@ EXCEPT !.cs = EmptyCell, !.uri = load_snake_string(cs)]]
          /\ reads' = [reads EXCEPT ![t] = Append(@, "uri")]
          /\ pc' = [pc EXCEPT ![t] = "fetch_data"]
          /\ UNCHANGED outcome
  /\ UNCHANGED <<config, constructed, served, content, invoked, gets, response>>

\* fetch_data: the GET is sent.
FetchDataGet(t) ==
  /\ pc[t] = "fetch_data"
  /\ gets' = [gets EXCEPT ![t] = Append(@, FetchUrl(Locals(t).uri, ipfs_endpoint))]
  /\ pc' = [pc EXCEPT ![t] = "get_pending"]
  /\ UNCHANGED <<config, constructed, served, content, frame, outcome, invoked,
                 reads, response>>

\* fetch_data: the GET ends, and default_handle_offchain_content returns or
\* DataFetchingError is raised.
FetchDataReturn(t, resp) ==
  /\ pc[t] = "get_pending"
  /\ response' = [response EXCEPT ![t] = resp]
  /\ IF FetchFails(resp)
     THEN Finish(t, Raised("DataFetchingError"))
     ELSE Finish(t, OffchainResult(Locals(t).uri, resp.text))
  /\ UNCHANGED <<config, constructed, served, content, frame, invoked, reads, gets>>

\* default_handle_onchain_content.
OnchainContent(t) ==
  /\ pc[t] = "handler"
  /\ Locals(t).handler = OnchainHandler
  /\ LET default_values == EffectiveDefaults(extra_default_values)
         metadata == load_metadata(Locals(t).cs)
     IN /\ frame' = [frame EXCEPT ![Frame(t)] =
                       [@ EXCEPT !.default_values = default_values]]
        /\ Finish(t, OnchainResult(OnchainMetadata(default_values, metadata)))
  /\ UNCHANGED <<config, constructed, served, content, invoked, reads, gets, response>>

\* return handler(cs), for a handler of the caller.
CustomHandler(t) ==
  /\ pc[t] = "handler"
  /\ Locals(t).handler \notin {OffchainHandler, OnchainHandler}
  /\ Finish(t, CustomResult(Locals(t).handler))
  /\ UNCHANGED <<config, constructed, served, content, frame, invoked, reads,
                 gets, response>>

\* The caller has the result or the exception; the call's frame is gone.
Return(t) ==
  /\ pc[t] = "done"
  /\ pc' = [pc EXCEPT ![t] = "idle"]
  /\ content' = [content EXCEPT ![t] = EmptyCell]
  /\ frame' = [frame EXCEPT ![Frame(t)] = InitLocals]
  /\ outcome' = [outcome EXCEPT ![t] = NoOutcome]
  /\ invoked' = [invoked EXCEPT ![t] = <<>>]
  /\ reads' = [reads EXCEPT ![t] = <<>>]
  /\ gets' = [gets EXCEPT ![t] = <<>>]
  /\ response' = [response EXCEPT ![t] = NoResponse]
  /\ served' = TRUE
  /\ UNCHANGED <<config, constructed>>

Step(t, cells) ==
  \/ \E cell \in cells : ParseContentCall(t, cell)
  \/ ParseContent(t)
  \/ OffchainReadUri(t)
  \/ FetchDataGet(t)
  \/ \E resp \in Responses : FetchDataReturn(t, resp)
  \/ OnchainContent(t)
  \/ CustomHandler(t)
  \/ Return(t)

\* One call after another on the parser.
Next == Step(1, Cells)

Spec == Init /\ [][Next]_vars

\* Calls of parse_content on one parser from several threads: the steps of
\* the calls interleave. The inputs are one of each kind.
ConcCells ==
  {PlainCell(IpfsScheme \o <<97>>),
   Cell(<<1>>, << <<97>> >>, EmptyDict),
   Cell(<<0>>, <<>>, EmptyDict),
   Cell(<<0>>, <<>>, (calculate_key("decimals") :> << <<54>>, <<52>> >>)),
   Cell(<<2>>, <<>>, EmptyDict)}

ConcHandlerMaps ==
  {EmptyDict, (2 :> "custom_prefix_handler") @@ (10 :> "custom_handler_b")}

InitConc ==
  \E handlers \in ConcHandlerMaps, extra \in {EmptyDict, [decimals |-> Str(<<54>>)]} :
    Constructed(<<103, 47>>, handlers, extra)

NextConc == \E t \in Calls : Step(t, ConcCells)

SpecConc == InitConc /\ [][NextConc]_vars

\* ------------------------------------------------------------ the claims
\* parse_content has read the prefix of call t and looked its handler up.
Dispatched(t) == pc[t] \in {"handler", "fetch_data", "get_pending", "done"} /\
                 content[t].bits # <<>>

FirstByte(t) == Head(content[t].bits)

Returned(t) == pc[t] = "done" /\ outcome[t].status = "returned"

\* The registry the constructor's arguments determine, written out.
RegistryOf(custom) ==
  [k \in {0, 1} \cup DOMAIN custom |->
     IF k \in DOMAIN custom THEN custom[k]
     ELSE IF k = 0 THEN OnchainHandler ELSE OffchainHandler]

\* The default table the constructor's arguments determine, written out.
DefaultTableOf(extra) ==
  [l \in DOMAIN FixedDefaults \cup DOMAIN extra |->
     IF l \in DOMAIN extra THEN extra[l] ELSE FixedDefaults[l]]

\* C1: when the first byte p of the cell has a handler h in the merged
\* registry, parse_content invokes exactly h and a returned result is h's.
C1_PrefixRoundTrip ==
  \A t \in Calls :
    (Dispatched(t) /\ Truthy(HandlerFor(RegistryOf(prefix_handlers), FirstByte(t))))
      => /\ invoked[t] = <<HandlerFor(RegistryOf(prefix_handlers), FirstByte(t))>>
         /\ Returned(t) =>
              outcome[t].by = HandlerFor(RegistryOf(prefix_handlers), FirstByte(t))

\* C2: when the first byte of the cell is no key of the merged registry,
\* parse_content raises InvalidPrefixError, invokes no handler and returns
\* nothing.
C2_UnknownPrefix ==
  \A t \in Calls :
    (Dispatched(t) /\ FirstByte(t) \notin DOMAIN RegistryOf(prefix_handlers))
      => /\ invoked[t] = <<>>
         /\ pc[t] = "done"
         /\ outcome[t] = Raised("InvalidPrefixError")

\* C3: the registry parse_content uses holds the caller's entry at every key
\* the caller supplies, whatever its value, and the built-in on-chain handler
\* at 0x00 and off-chain handler at 0x01 where the caller supplies none.
C3_RegistryMerge ==
  \A t \in Calls :
    Dispatched(t) =>
      LET handlers == Locals(t).handlers IN
        /\ DOMAIN handlers = {0, 1} \cup DOMAIN prefix_handlers
        /\ \A k \in DOMAIN prefix_handlers : handlers[k] = prefix_handlers[k]
        /\ 0 \notin DOMAIN prefix_handlers => handlers[0] = OnchainHandler
        /\ 1 \notin DOMAIN prefix_handlers => handlers[1] = OffchainHandler

\* A call dispatched on a parser whose caller overrides 0x00 alone: the
\* built-in at 0x01 is still there.
C3_Witness ==
  \E t \in Calls :
    /\ Dispatched(t)
    /\ DOMAIN prefix_handlers = {0}
    /\ Locals(t).handlers[0] = "custom_prefix_handler"
    /\ Locals(t).handlers[1] = OffchainHandler

\* C4: the metadata the on-chain handler returns has exactly the names of the
\* effective default table; a name whose key is in the dictionary maps to the
\* decoded value, any other to its effective default; with no recognized key
\* the metadata is the effective default table; unrecognized keys add nothing.
C4_OnchainMetadata ==
  \A t \in Calls :
    (Returned(t) /\ outcome[t].by = OnchainHandler) =>
      LET metadata == outcome[t].metadata
          dict == content[t].dict
          table == DefaultTableOf(extra_default_values)
      IN /\ DOMAIN metadata = DOMAIN table
         /\ \A l \in DOMAIN table :
              metadata[l] = IF KeyTable[l] \in DOMAIN dict
                            THEN Str(Concat(dict[KeyTable[l]]))
                            ELSE table[l]
         /\ (\A l \in DOMAIN table : KeyTable[l] \notin DOMAIN dict)
              => metadata = table

\* An on-chain result from a dictionary that holds "name" and a key of no
\* attribute but not "decimals", on a parser that overrides the default of
\* "decimals".
C4_Witness ==
  \E t \in Calls :
    /\ Returned(t) /\ outcome[t].by = OnchainHandler
    /\ "decimals" \in DOMAIN extra_default_values
    /\ DOMAIN content[t].dict = {KeyTable["name"], 1}
    /\ outcome[t].metadata["decimals"] = extra_default_values["decimals"]
    /\ outcome[t].metadata["name"].some

\* C5: an off-chain root holding s in one cell after a 0x00 marker, and one
\* holding s as a snake string over child cells, both decode to the uri s.
C5_ShapeEquivalence ==
  \A t \in Calls : \A s \in Uris :
    (/\ content[t] \in {SingleCell(0, s)} \cup SnakeCells(s)
     /\ invoked[t] = <<OffchainHandler>>
     /\ pc[t] \in {"fetch_data", "get_pending", "done"})
      => /\ Returned(t) => outcome[t].uri = s
         /\ pc[t] # "done" => Locals(t).uri = s
         /\ outcome[t].status # "InvalidPrefixError"

\* C6: the GET goes to ipfs_endpoint followed by the rest of the uri after its
\* leading "ipfs://" when the uri starts with it, and to the uri otherwise.
C6_GatewaySubstitution ==
  \A t \in Calls :
    (pc[t] = "get_pending") =>
      LET u == Locals(t).uri IN
        gets[t] = << IF StartsWith(u, IpfsScheme)
                     THEN ipfs_endpoint \o SubSeq(u, Len(IpfsScheme) + 1, Len(u))
                     ELSE u >>

RunAlone(cell, resp) ==
  IF ~CanLoadBits(begin_parse(cell)) THEN Raised("StructuralError")
  ELSE LET cs == AfterLoadBits(begin_parse(cell))
           handler == HandlerFor(MergedHandlers(default_handlers, prefix_handlers),
                                 parse_prefix(begin_parse(cell)))
           uri == IF RefsEqualsZero(cs) THEN load_string(AfterLoadBits(cs))
                  ELSE load_snake_string(cs)
       IN CASE ~Truthy(handler) -> Raised("InvalidPrefixError")
            [] handler = OnchainHandler ->
                 OnchainResult(OnchainMetadata(EffectiveDefaults(extra_default_values),
                                               load_metadata(cs)))
            [] handler = OffchainHandler ->
                 IF RefsEqualsZero(cs) /\ ~CanLoadBits(cs)
                 THEN Raised("StructuralError")
                 ELSE IF RefsEqualsZero(cs) /\ parse_prefix(cs) # 0
                 THEN Raised("InvalidPrefixError")
                 ELSE IF FetchFails(resp) THEN Raised("DataFetchingError")
                 ELSE OffchainResult(uri, resp.text)
            [] OTHER -> CustomResult(handler)

\* C8: with calls interleaved on one parser, each with its own cell, every
\* call ends as it would have run alone, and the prefix and the handler it
\* works with are those of its own cell.
C8_ConcurrentIsolation ==
  \A t \in Calls :
    /\ pc[t] = "done" => outcome[t] = RunAlone(content[t], response[t])
    /\ Dispatched(t) =>
         /\ Locals(t).prefix_value = parse_prefix(content[t])
         /\ Locals(t).handler =
              HandlerFor(RegistryOf(prefix_handlers), parse_prefix(content[t]))

\* An on-chain call has ended while an off-chain call of another cell waits
\* for its GET.
C8_Witness ==
  \E t, u \in Calls :
    /\ t # u
    /\ pc[t] = "done" /\ outcome[t].type = "onchain"
    /\ pc[u] = "get_pending"

\* C9: whatever calls have run, the four fields are as the constructor left
\* them, and the registry and the default table a call uses are those the
\* constructor's arguments determine.
C9_ConfigFixed ==
  /\ ipfs_endpoint = constructed.ipfs_endpoint
  /\ prefix_handlers = constructed.prefix_handlers
  /\ extra_default_values = constructed.extra_default_values
  /\ default_handlers = constructed.default_handlers
  /\ \A t \in Calls :
       /\ Dispatched(t) =>
            Locals(t).handlers = RegistryOf(constructed.prefix_handlers)
       /\ (Returned(t) /\ outcome[t].by = OnchainHandler) =>
            Locals(t).default_values =
              DefaultTableOf(constructed.extra_default_values)

\* A later call, after a call on the same parser has ended, returns on-chain
\* metadata on a parser constructed with extra defaults.
C9_Witness ==
  \E t \in Calls :
    /\ served
    /\ Returned(t) /\ outcome[t].by = OnchainHandler
    /\ constructed.extra_default_values # EmptyDict
    /\ Locals(t).default_values["decimals"] =
         constructed.extra_default_values["decimals"]

\* C10: on a node with no child cells the off-chain handler reads the marker
\* before the URI; with a marker other than 0x00 it fails with
\* InvalidPrefixError, reads no URI, issues no GET and returns nothing.
C10_MarkerBeforeUri ==
  \A t \in Calls :
    (/\ invoked[t] = <<OffchainHandler>>
     /\ content[t].refs = <<>>
     /\ Len(content[t].bits) >= 2
     /\ pc[t] \in {"fetch_data", "get_pending", "done"})
      => /\ reads[t] # <<>> /\ reads[t][1] = "marker"
         /\ content[t].bits[2] # 0
              => /\ outcome[t] = Raised("InvalidPrefixError")
                 /\ reads[t] = <<"marker">>
                 /\ gets[t] = <<>>

====
